---- MODULE Spec2Model ----
(***************************************************************************)
(* Model of the valuation toolkit: the DCF routines (valuation/dcf.py),    *)
(* the sensitivity grids (visualizations/charts.py), the data helpers      *)
(* (valuation/data.py) and the three flows of the Streamlit script         *)
(* (app.py).                                                               *)
(*                                                                         *)
(* Numbers.  The program computes in binary floating point.  The model     *)
(* computes in exact rational arithmetic over arbitrary-size integers, so  *)
(* that an equality of two results means equality of the real numbers the  *)
(* two float computations approximate.  The special float values (inf,     *)
(* nan) and a raised ZeroDivisionError are kept as values of their own.    *)
(***************************************************************************)
EXTENDS Integers, Sequences, FiniteSets, TLC

(***************************************************************************)
(* Natural numbers of any size: little-endian sequences of limbs in base   *)
(* Base, without leading zero limbs (zero is the empty sequence).          *)
(***************************************************************************)
Base == 1000

RECURSIVE BNorm(_)
BNorm(a) ==
  IF a = <<>> THEN <<>>
  ELSE IF a[Len(a)] = 0 THEN BNorm(SubSeq(a, 1, Len(a) - 1)) ELSE a

RECURSIVE BFromNat(_)
BFromNat(n) == IF n = 0 THEN <<>> ELSE <<n % Base>> \o BFromNat(n \div Base)

Limb(a, i) == IF i <= Len(a) THEN a[i] ELSE 0

BMaxLen(a, b) == IF Len(a) >= Len(b) THEN Len(a) ELSE Len(b)

RECURSIVE BAddFrom(_, _, _, _)
BAddFrom(a, b, i, c) ==
  IF i > BMaxLen(a, b) THEN (IF c = 0 THEN <<>> ELSE <<c>>)
  ELSE LET s == Limb(a, i) + Limb(b, i) + c
       IN  <<s % Base>> \o BAddFrom(a, b, i + 1, s \div Base)

BAdd(a, b) == BAddFrom(a, b, 1, 0)

\* a - b for a >= b
RECURSIVE BSubFrom(_, _, _, _)
BSubFrom(a, b, i, c) ==
  IF i > Len(a) THEN <<>>
  ELSE LET s == Limb(a, i) - Limb(b, i) - c
       IN  IF s < 0 THEN <<s + Base>> \o BSubFrom(a, b, i + 1, 1)
                    ELSE <<s>> \o BSubFrom(a, b, i + 1, 0)

BSub(a, b) == BNorm(BSubFrom(a, b, 1, 0))

\* -1, 0, 1 as a < b, a = b, a > b
RECURSIVE BCmpFrom(_, _, _)
BCmpFrom(a, b, i) ==
  IF i = 0 THEN 0
  ELSE IF a[i] < b[i] THEN -1
  ELSE IF a[i] > b[i] THEN 1
  ELSE BCmpFrom(a, b, i - 1)

BCmp(a, b) ==
  IF Len(a) < Len(b) THEN -1
  ELSE IF Len(a) > Len(b) THEN 1
  ELSE BCmpFrom(a, b, Len(a))

RECURSIVE ConvSum(_, _, _, _)
ConvSum(a, b, k, i) ==
  IF i > Len(a) THEN 0
  ELSE (IF k - i + 1 >= 1 /\ k - i + 1 <= Len(b) THEN a[i] * b[k - i + 1] ELSE 0)
       + ConvSum(a, b, k, i + 1)

RECURSIVE BCarry(_, _, _)
BCarry(s, i, c) ==
  IF i > Len(s) THEN BFromNat(c)
  ELSE LET t == s[i] + c IN <<t % Base>> \o BCarry(s, i + 1, t \div Base)

BMul(a, b) ==
  IF a = <<>> \/ b = <<>> THEN <<>>
  ELSE BNorm(BCarry([k \in 1..(Len(a) + Len(b) - 1) |-> ConvSum(a, b, k, 1)], 1, 0))

(***************************************************************************)
(* Rationals: s * (n / d) * PRODUCT p^e[p], with s the sign in {-1, 0, 1}, *)
(* n and d naturals >= 1 and e a function from factors to non-zero         *)
(* exponents.  Every factor that fits a machine integer is kept in e, so   *)
(* that products, powers and quotients of small numbers cost nothing and   *)
(* a sum is taken over the least common denominator.  Two rationals are    *)
(* compared by the sign of their difference.                               *)
(***************************************************************************)
Abs(x) == IF x < 0 THEN -x ELSE x

Sgn(x) == IF x < 0 THEN -1 ELSE IF x > 0 THEN 1 ELSE 0

Min(a, b) == IF a <= b THEN a ELSE b

ENone == [p \in {} |-> 0]

EGet(e, p) == IF p \in DOMAIN e THEN e[p] ELSE 0

\* the pointwise a + k * b, zero exponents dropped
EComb(a, k, b) ==
  LET nz == {p \in DOMAIN a \cup DOMAIN b : EGet(a, p) + k * EGet(b, p) # 0}
  IN  [p \in nz |-> EGet(a, p) + k * EGet(b, p)]

\* a factorisation of a machine integer n >= 1, trying the divisors p, p + 1, ...
\* up to TrialLimit: what is left then is kept as one factor, prime or not
TrialLimit == 40

RECURSIVE FactorFrom(_, _)
FactorFrom(n, p) ==
  IF n = 1 THEN ENone
  ELSE IF p * p > n \/ p > TrialLimit THEN (n :> 1)
  ELSE IF n % p = 0 THEN EComb((p :> 1), 1, FactorFrom(n \div p, p))
  ELSE FactorFrom(n, p + 1)

Factor(n) == FactorFrom(n, 2)

\* the machine integer of a natural below Base^3
BToNat(a) == Limb(a, 1) + Base * Limb(a, 2) + Base * Base * Limb(a, 3)

\* a * k for a machine integer k with k * Base within the machine integers
RECURSIVE BMulSmallFrom(_, _, _, _)
BMulSmallFrom(a, k, i, c) ==
  IF i > Len(a) THEN BFromNat(c)
  ELSE LET t == a[i] * k + c IN <<t % Base>> \o BMulSmallFrom(a, k, i + 1, t \div Base)

BMulSmall(a, k) == BMulSmallFrom(a, k, 1, 0)

RECURSIVE BMulPow(_, _, _)
BMulPow(a, p, k) == IF k <= 0 THEN a ELSE BMulPow(BMulSmall(a, p), p, k - 1)

\* a * PRODUCT of p^(sg * e[p]) over the primes p of S with sg * e[p] > 0
RECURSIVE BMulMono(_, _, _, _)
BMulMono(a, e, sg, S) ==
  IF S = {} THEN a
  ELSE LET p == CHOOSE q \in S : TRUE
       IN  BMulMono(BMulPow(a, p, sg * e[p]), e, sg, S \ {p})

QZero == [s |-> 0, n |-> <<1>>, d |-> <<1>>, e |-> ENone]

\* a numerator below Base^2 is moved into the exponents
QNormNum(x) ==
  IF Len(x.n) <= 2 /\ x.n # <<1>>
    THEN [x EXCEPT !.n = <<1>>, !.e = EComb(x.e, 1, Factor(BToNat(x.n)))]
  ELSE x

\* and so is a denominator below Base^2
QNormDen(x) ==
  IF Len(x.d) <= 2 /\ x.d # <<1>>
    THEN [x EXCEPT !.d = <<1>>, !.e = EComb(x.e, -1, Factor(BToNat(x.d)))]
  ELSE x

QNorm(x) == IF x.s = 0 THEN QZero ELSE QNormDen(QNormNum(x))

\* the rational n/d of two machine integers, d # 0
Q(n, d) ==
  IF n = 0 THEN QZero
  ELSE [s |-> Sgn(n) * Sgn(d), n |-> <<1>>, d |-> <<1>>,
        e |-> EComb(Factor(Abs(n)), -1, Factor(Abs(d)))]

QInt(n) == Q(n, 1)

QNeg(x) == [x EXCEPT !.s = -x.s]

QMul(x, y) ==
  IF x.s = 0 \/ y.s = 0 THEN QZero
  ELSE QNorm([s |-> x.s * y.s, n |-> BMul(x.n, y.n), d |-> BMul(x.d, y.d),
              e |-> EComb(x.e, 1, y.e)])

\* y # 0
QInv(y) == [s |-> y.s, n |-> y.d, d |-> y.n, e |-> EComb(ENone, -1, y.e)]

\* the factors x and y share
QCommon(x, y) == [p \in DOMAIN x.e \cup DOMAIN y.e |-> Min(EGet(x.e, p), EGet(y.e, p))]

\* the numerator of u over the denominator it shares with v
QScaled(u, v) ==
  BMulMono(IF u.d = v.d THEN u.n ELSE BMul(u.n, v.d), EComb(u.e, -1, QCommon(u, v)), 1,
           DOMAIN EComb(u.e, -1, QCommon(u, v)))

\* x + y from the numerators a of x and b of y over the shared denominator
QSigned(x, y, a, b) ==
  [s |-> IF x.s = y.s \/ BCmp(a, b) > 0 THEN x.s ELSE IF BCmp(a, b) = 0 THEN 0 ELSE y.s,
   n |-> IF x.s = y.s THEN BAdd(a, b) ELSE IF BCmp(a, b) >= 0 THEN BSub(a, b) ELSE BSub(b, a),
   d |-> IF x.d = y.d THEN x.d ELSE BMul(x.d, y.d),
   e |-> EComb(QCommon(x, y), 1, ENone)]

QAdd(x, y) ==
  IF x.s = 0 THEN y
  ELSE IF y.s = 0 THEN x
  ELSE QNorm(QSigned(x, y, QScaled(x, y), QScaled(y, x)))

QSub(x, y) == QAdd(x, QNeg(y))

\* sign of x - y
QCmp(x, y) == QSub(x, y).s

QEq(x, y) == QCmp(x, y) = 0

QLt(x, y) == QCmp(x, y) < 0

\* the numerator and the denominator of |x| as naturals
QNum(x) == IF x.s = 0 THEN <<>> ELSE BMulMono(x.n, x.e, 1, DOMAIN x.e)

QDen(x) == BMulMono(x.d, x.e, -1, DOMAIN x.e)

(***************************************************************************)
(* Float values.  k is "fin" (the number q), "inf" (q carries the sign),   *)
(* "nan", or "raise": the evaluation raised ZeroDivisionError, which       *)
(* every enclosing expression propagates.  np tells a numpy scalar         *)
(* (numpy.float64: a value read from a DataFrame or made by np.linspace)   *)
(* from a Python float: a numpy division by zero gives inf or nan and a    *)
(* warning, a Python float division by zero raises.                        *)
(***************************************************************************)
Fin(q, np) == [k |-> "fin", q |-> q, np |-> np]

Inf(s, np) == [k |-> "inf", q |-> [QZero EXCEPT !.s = s], np |-> np]

NaN(np) == [k |-> "nan", q |-> QZero, np |-> np]

Raise == [k |-> "raise", q |-> QZero, np |-> FALSE]

\* the Python float p/100 (a slider value divided by 100)
Pct(p) == Fin(Q(p, 100), FALSE)

PyInt(n) == Fin(QInt(n), FALSE)

IsNumber(x) == x.k \in {"fin", "inf", "nan"}

FNeg(x) == IF x.k \in {"fin", "inf"} THEN [x EXCEPT !.q = QNeg(x.q)] ELSE x

FAdd(x, y) ==
  LET np == x.np \/ y.np
  IN  IF x.k = "raise" \/ y.k = "raise" THEN Raise
      ELSE IF x.k = "nan" \/ y.k = "nan" THEN NaN(np)
      ELSE IF x.k = "inf" /\ y.k = "inf"
             THEN (IF x.q.s = y.q.s THEN Inf(x.q.s, np) ELSE NaN(np))
      ELSE IF x.k = "inf" THEN Inf(x.q.s, np)
      ELSE IF y.k = "inf" THEN Inf(y.q.s, np)
      ELSE Fin(QAdd(x.q, y.q), np)

FSub(x, y) == FAdd(x, FNeg(y))

FMul(x, y) ==
  LET np == x.np \/ y.np
  IN  IF x.k = "raise" \/ y.k = "raise" THEN Raise
      ELSE IF x.k = "nan" \/ y.k = "nan" THEN NaN(np)
      ELSE IF x.k = "inf" \/ y.k = "inf"
             THEN (IF x.q.s * y.q.s = 0 THEN NaN(np) ELSE Inf(x.q.s * y.q.s, np))
      ELSE Fin(QMul(x.q, y.q), np)

FDiv(x, y) ==
  LET np == x.np \/ y.np
  IN  IF x.k = "raise" \/ y.k = "raise" THEN Raise
      ELSE IF x.k = "nan" \/ y.k = "nan" THEN NaN(np)
      ELSE IF y.k = "inf"
             THEN (IF x.k = "inf" THEN NaN(np) ELSE Fin(QZero, np))
      ELSE IF y.q.s = 0
             THEN (IF ~np THEN Raise
                   ELSE IF x.q.s = 0 THEN NaN(np)
                   ELSE Inf(x.q.s, np))
      ELSE IF x.k = "inf" THEN Inf(x.q.s * y.q.s, np)
      ELSE Fin(QMul(x.q, QInv(y.q)), np)

\* x ** i for an int i >= 0
RECURSIVE FPow(_, _)
FPow(x, i) == IF i = 0 THEN [PyInt(1) EXCEPT !.np = x.np] ELSE FMul(FPow(x, i - 1), x)

\* x == y and x > y on floats (False whenever a nan is involved)
FEq(x, y) ==
  /\ x.k \in {"fin", "inf"} /\ y.k \in {"fin", "inf"}
  /\ IF x.k = "inf" \/ y.k = "inf" THEN x.k = y.k /\ x.q.s = y.q.s ELSE QEq(x.q, y.q)

FGt(x, y) ==
  /\ x.k \in {"fin", "inf"} /\ y.k \in {"fin", "inf"}
  /\ IF x.k = "inf" THEN (x.q.s = 1 /\ ~(y.k = "inf" /\ y.q.s = 1))
     ELSE IF y.k = "inf" THEN y.q.s = -1
     ELSE QLt(y.q, x.q)

(***************************************************************************)
(* valuation/dcf.py                                                        *)
(***************************************************************************)
DefaultYears == 5

\* the projection over range(0, years)
project_cash_flows_from0(cash_flows, growth_rate, years) ==
  [i \in 1..years |-> FMul(cash_flows, FPow(FAdd(PyInt(1), growth_rate), i - 1))]

project_cash_flows(cash_flows, growth_rate, years) ==
  [i \in 1..years |-> FMul(cash_flows, FPow(FAdd(PyInt(1), growth_rate), i))]

calculate_terminal_value_gordon(fcf, terminal_growth, discount_rate) ==
  FDiv(FMul(fcf, FAdd(PyInt(1), terminal_growth)), FSub(discount_rate, terminal_growth))

calculate_terminal_value_exit_multiple(fcf, exit_multiple) == FMul(fcf, exit_multiple)

\* sum(list): 0 + list[0] + list[1] + ...
RECURSIVE PySum(_, _)
PySum(list, n) == IF n = 0 THEN PyInt(0) ELSE FAdd(PySum(list, n - 1), list[n])

discounted_cash_flows(projected, terminal, discount_rate) ==
  FAdd(PySum([i \in 1..Len(projected) |->
                FDiv(projected[i], FPow(FAdd(PyInt(1), discount_rate), i))],
             Len(projected)),
       FDiv(terminal, FPow(FAdd(PyInt(1), discount_rate), Len(projected))))


(***************************************************************************)
(* visualizations/charts.py                                                *)
(***************************************************************************)
\* np.linspace(start, stop, num): start + j * (stop - start) / (num - 1)
LinSpace(start, stop, num) ==
  [j \in 1..num |->
     [FAdd(start, FMul(PyInt(j - 1), FDiv(FSub(stop, start), PyInt(num - 1))))
        EXCEPT !.np = TRUE]]

\* np.arange(start, stop, step) on ints, step > 0
ARange(start, stop, step) ==
  [j \in 1..((stop - start + step - 1) \div step) |->
     Fin(QInt(start + (j - 1) * step), TRUE)]

HeatRates(discount_rate) ==
  LinSpace(FSub(discount_rate, Pct(3)), FAdd(discount_rate, Pct(3)), 7)

HeatGrowths(terminal_growth) ==
  LinSpace(FSub(terminal_growth, Pct(1)), FAdd(terminal_growth, Pct(1)), 5)

\* l.17-21: the cell of the growth g and the rate r
sensitivity_cell(proj, g, r) ==
  discounted_cash_flows(proj, calculate_terminal_value_gordon(proj[Len(proj)], g, r), r)

\* l.16-21: the row of the growth g
sensitivity_row(proj, g, rates) ==
  [ri \in 1..Len(rates) |-> sensitivity_cell(proj, g, rates[ri])]

sensitivity_grid(latest_fcf, growths, rates) ==
  [gi \in 1..Len(growths) |->
     sensitivity_row(project_cash_flows(latest_fcf, growths[gi], DefaultYears),
                     growths[gi], rates)]

\* Z of render_sensitivity_heatmap: a row per growth, a column per rate
render_sensitivity_heatmap(latest_fcf, discount_rate, terminal_growth) ==
  sensitivity_grid(latest_fcf, HeatGrowths(terminal_growth), HeatRates(discount_rate))

HeatMultiples(exit_multiple) == ARange(exit_multiple - 5, exit_multiple + 6, 2)

\* l.36-40: the cell of the multiple m and the rate r
exit_multiple_cell(proj, m, r) ==
  discounted_cash_flows(proj, calculate_terminal_value_exit_multiple(proj[Len(proj)], m), r)

exit_multiple_grid(proj, multiples, rates) ==
  [mi \in 1..Len(multiples) |->
     [ri \in 1..Len(rates) |-> exit_multiple_cell(proj, multiples[mi], rates[ri])]]

\* Z of render_exit_multiple_heatmap: a row per multiple, a column per rate
render_exit_multiple_heatmap(latest_fcf, discount_rate, exit_multiple) ==
  exit_multiple_grid(project_cash_flows(latest_fcf, Pct(10), DefaultYears),
                     HeatMultiples(exit_multiple), HeatRates(discount_rate))

(***************************************************************************)
(* Optional values: a dict entry that may be absent, a Python None.        *)
(***************************************************************************)
None == [has |-> FALSE, v |-> PyInt(0)]

Some(v) == [has |-> TRUE, v |-> v]

Np(n) == Fin(QInt(n), TRUE)

\* Python truth of `x` for None or a number: None and zero are false
Truthy(o) == o.has /\ ~(o.v.k = "fin" /\ o.v.q.s = 0)

\* a function as the table of its values
Table(f) == f @@ <<>>

(***************************************************************************)
(* valuation/data.py.  A cash-flow statement is a function from the row    *)
(* names it holds to the value of the row's first column; a company's      *)
(* info is a record of optional fields.  Provider is the data source: what *)
(* get_financials finds for each ticker symbol (raises: the fetch fails).  *)
(***************************************************************************)
Row1 == "Total Cash From Operating Activities"
Row2 == "Operating Cash Flow"
Row3 == "Net cash provided by operating activities"
RowCapex == "Capital Expenditures"

possible_keys == <<Row1, Row2, Row3>>

FAbs(x) == IF x.k \in {"fin", "inf"} /\ x.q.s < 0 THEN FNeg(x) ELSE x

\* the extraction as its docstring has it: Operating CF - |CapEx| where both rows
\* exist
extract_latest_fcf_approx(cashflow_df) ==
  LET hits == {i \in 1..Len(possible_keys) : possible_keys[i] \in DOMAIN cashflow_df}
  IN  IF Row2 \in DOMAIN cashflow_df /\ RowCapex \in DOMAIN cashflow_df
        THEN Some(FSub(cashflow_df[Row2], FAbs(cashflow_df[RowCapex])))
      ELSE IF hits # {}
        THEN Some(cashflow_df[possible_keys[CHOOSE i \in hits : \A j \in hits : i <= j]])
      ELSE None

extract_latest_fcf(cashflow_df) ==
  LET hits == {i \in 1..Len(possible_keys) : possible_keys[i] \in DOMAIN cashflow_df}
  IN  IF hits # {}
        THEN Some(cashflow_df[possible_keys[CHOOSE i \in hits : \A j \in hits : i <= j]])
      ELSE IF Row2 \in DOMAIN cashflow_df /\ RowCapex \in DOMAIN cashflow_df
        THEN Some(FSub(cashflow_df[Row2], FAbs(cashflow_df[RowCapex])))
      ELSE None

\* the keys get_valuation_multiples reads, in the order of its columns
MetricKeys == <<"trailingPE", "forwardPE", "enterpriseToEbitda",
                "priceToSalesTrailing12Months", "enterpriseToRevenue", "trailingEps">>

\* a metric is a decimal of two places, given in hundredths, or absent; m lists
\* the six of MetricKeys, -1 for an absent one
Info(beta, price, shares, dividend, m) ==
  [beta |-> beta, currentPrice |-> price, sharesOutstanding |-> shares,
   dividendRate |-> dividend,
   multiples |-> [i \in 1..Len(MetricKeys) |->
                    IF m[i] < 0 THEN [has |-> FALSE, x |-> 0] ELSE [has |-> TRUE, x |-> m[i]]]]

\* get_valuation_multiples: info.get(key, "N/A") for each key
get_valuation_multiples(info) == info.multiples

Tickers == {"AAA", "BBB", "CCC", "DDD", "EEE", "ZZZ"}

Provider ==
  [t \in Tickers |->
     CASE t = "AAA" ->
            [raises |-> FALSE, cashflow |-> (Row1 :> Np(100)),
             info |-> Info(Some(PyInt(0)), Some(PyInt(100)), Some(PyInt(17)),
                           Some(PyInt(5)), <<1000, 1200, 800, 10, 500, 600>>)]
       [] t = "BBB" ->
            [raises |-> FALSE, cashflow |-> (Row2 :> Np(100)) @@ (RowCapex :> Np(-20)),
             info |-> Info(None, Some(PyInt(102)), Some(PyInt(17)),
                           Some(PyInt(3)), <<2600, -1, 800, 10, 500, 200>>)]
       [] t = "CCC" ->
            [raises |-> FALSE, cashflow |-> (RowCapex :> Np(-20)),
             info |-> Info(Some(PyInt(1)), Some(PyInt(50)), Some(PyInt(10)),
                           None, <<3000, 1200, 800, 10, -1, 400>>)]
       [] t = "DDD" ->
            [raises |-> FALSE, cashflow |-> (Row3 :> Np(100)),
             info |-> Info(Some(PyInt(1)), Some(PyInt(100)), None,
                           Some(PyInt(2)), <<-1, 1800, -1, 40, 500, 600>>)]
       [] t = "EEE" ->
            [raises |-> FALSE, cashflow |-> (Row1 :> Np(100)) @@ (Row2 :> Np(90)),
             info |-> Info(Some(PyInt(1)), None, Some(PyInt(17)),
                           Some(PyInt(2)), <<2000, 2400, 1400, 40, 500, -1>>)]
       [] OTHER ->
            [raises |-> TRUE, cashflow |-> (RowCapex :> Np(0)),
             info |-> Info(None, None, None, None, <<-1, -1, -1, -1, -1, -1>>)]]

get_financials(ticker) == Provider[ticker]

(***************************************************************************)
(* State.  lib: a caller of the library, one that projects, takes a        *)
(* terminal value and discounts, or one that extracts the cash flow of a   *)
(* statement.  dcf: what the single-ticker DCF section of the script has   *)
(* rendered.  pc: "idle" before the script runs, then the loop it is in,   *)
(* "done" once the page is rendered.                                       *)
(***************************************************************************)
VARIABLES pc, lib, dcf, ddm, tickers, ticker_list, comparison, metrics_table,
          selected_metrics, scoring

vars == <<pc, lib, dcf, ddm, tickers, ticker_list, comparison, metrics_table,
          selected_metrics, scoring>>

tables == <<tickers, ticker_list, comparison, metrics_table, selected_metrics, scoring>>

(***************************************************************************)
(* The library (valuation/dcf.py) called on its own.                       *)
(***************************************************************************)
MaxYears == 2

LibBases == {PyInt(100), Np(100), PyInt(-100), Np(0)}

LibGrowths == {0, 10}

LibRates == {-200, -100, 2, 5, 10}

LibMultiples == {12}

\* the third argument of a call: a number of years, or left out
LibYears ==
  {[given |-> TRUE, n |-> k] : k \in 0..MaxYears} \cup {[given |-> FALSE, n |-> 0]}

LibArgs ==
  [cash_flows : LibBases, growth_rate : LibGrowths, years : LibYears,
   terminal_growth : {2, 5}, discount_rate : LibRates,
   method : {"Gordon Growth", "Exit Multiple"}, exit_multiple : LibMultiples]

LibStart(a) == [pc |-> "start", args |-> a, projected |-> <<>>,
                terminal |-> PyInt(0), pv |-> PyInt(0)]

\* the cash flow the terminal value is taken on: projected[-1], the base
\* value when nothing was projected
LastCF(l) ==
  IF Len(l.projected) = 0 THEN l.args.cash_flows ELSE l.projected[Len(l.projected)]

CallProject ==
  /\ lib.pc = "start"
  /\ lib' = [lib EXCEPT !.pc = "projected",
               !.projected = project_cash_flows(lib.args.cash_flows,
                                                Pct(lib.args.growth_rate),
                                                IF lib.args.years.given
                                                  THEN lib.args.years.n
                                                  ELSE DefaultYears)]
  /\ UNCHANGED <<pc, dcf, ddm, tables>>

CallTerminal ==
  /\ lib.pc = "projected"
  /\ lib' = [lib EXCEPT !.pc = "terminal",
               !.terminal =
                 IF lib.args.method = "Gordon Growth"
                   THEN calculate_terminal_value_gordon(
                          LastCF(lib), Pct(lib.args.terminal_growth),
                          Pct(lib.args.discount_rate))
                   ELSE calculate_terminal_value_exit_multiple(
                          LastCF(lib), PyInt(lib.args.exit_multiple))]
  /\ UNCHANGED <<pc, dcf, ddm, tables>>

CallDiscounted ==
  /\ lib.pc = "terminal"
  /\ lib' = [lib EXCEPT !.pc = "done",
               !.pv = discounted_cash_flows(lib.projected, lib.terminal,
                                            Pct(lib.args.discount_rate))]
  /\ UNCHANGED <<pc, dcf, ddm, tables>>

(***************************************************************************)
(* extract_latest_fcf (valuation/data.py) called on its own, on every      *)
(* statement made of the rows it looks at; a first-column entry is a       *)
(* positive or a negative amount, or a NaN.                                *)
(***************************************************************************)
FrameValues == {Np(100), Np(-20), NaN(TRUE)}

Frames ==
  UNION {[S -> FrameValues] : S \in SUBSET {Row1, Row2, Row3, RowCapex}}

DataStart(cashflow_df) ==
  [pc |-> "start", cashflow_df |-> cashflow_df, latest_fcf |-> None]

CallExtract ==
  /\ pc = "data" /\ lib.pc = "start"
  /\ lib' = [lib EXCEPT !.pc = "extracted",
               !.latest_fcf = extract_latest_fcf(lib.cashflow_df)]
  /\ UNCHANGED <<pc, dcf, ddm, tables>>

(***************************************************************************)
(* app.py, the DCF flow, single ticker (lines 27-170).  One action is one  *)
(* run of the section: the fetch, the sliders' values, the valuation, the  *)
(* market comparison and the sensitivity heatmap.                          *)
(***************************************************************************)
rf == Fin(Q(45, 1000), FALSE)

market_return == Fin(Q(9, 100), FALSE)

default_beta == PyInt(1)

SingleTickers == {"AAA", "DDD", "CCC", "ZZZ"}

GrowthSlider == {2, 10}

TerminalSlider == {2, 5}

WaccSlider == {5, 10}

\* <<use_auto_wacc, the manual slider's value>>
WaccChoices == {<<TRUE, 10>>} \cup {<<FALSE, w>> : w \in WaccSlider}

ExitSlider == {12}

DcfBlank ==
  [status |-> "none", ticker |-> "", latest_fcf |-> PyInt(0), growth_rate |-> PyInt(0),
   terminal_growth |-> PyInt(0), discount_rate |-> PyInt(0), method |-> "",
   exit_multiple |-> 0, projected |-> <<>>, terminal |-> PyInt(0),
   total_value |-> PyInt(0), market_price |-> None, shares_outstanding |-> None,
   implied_price |-> None, valuation_label |-> "", Z |-> <<>>]

\* cost_of_equity = rf + beta * (market_return - rf)
capm(info) ==
  LET beta == IF info.beta.has THEN info.beta.v ELSE default_beta
  IN  FAdd(rf, FMul(beta, FSub(market_return, rf)))

\* the comparison with >= in place of >
valuation_label_ge(intrinsic, market) ==
  IF FGt(intrinsic, market) \/ FEq(intrinsic, market) THEN "Undervalued" ELSE "Overvalued"

valuation_label(intrinsic, market) ==
  IF FGt(intrinsic, market) THEN "Undervalued" ELSE "Overvalued"

\* the section ends without a valuation: an exception is raised, or st.stop()
dcf_ended(ticker, status) == [DcfBlank EXCEPT !.status = status, !.ticker = ticker]

\* l.123: the intrinsic value per share
implied_price(total_value, info) == FDiv(total_value, info.sharesOutstanding.v)

\* l.104-170: the values shown, the market comparison, the heatmap; ui
\* holds the widgets' values
dcf_shown(ui, info, latest_fcf, discount_rate, projected, terminal, total_value) ==
  IF total_value.k = "raise" THEN dcf_ended(ui.ticker, "raised")
  ELSE
    [status |-> "shown", ticker |-> ui.ticker, latest_fcf |-> latest_fcf,
     growth_rate |-> Pct(ui.growth_pct), terminal_growth |-> Pct(ui.terminal_pct),
     discount_rate |-> discount_rate, method |-> ui.method,
     exit_multiple |-> IF ui.method = "Gordon Growth" THEN 0 ELSE ui.exit_multiple,
     projected |-> projected, terminal |-> terminal, total_value |-> total_value,
     market_price |-> info.currentPrice, shares_outstanding |-> info.sharesOutstanding,
     implied_price |->
       IF Truthy(info.currentPrice) /\ Truthy(info.sharesOutstanding)
         THEN Some(implied_price(total_value, info)) ELSE None,
     valuation_label |->
       IF Truthy(info.currentPrice) /\ Truthy(info.sharesOutstanding)
         THEN valuation_label(implied_price(total_value, info), info.currentPrice.v)
       ELSE "",
     Z |-> IF ui.method = "Gordon Growth"
             THEN render_sensitivity_heatmap(latest_fcf, discount_rate,
                                             Pct(ui.terminal_pct))
             ELSE render_exit_multiple_heatmap(latest_fcf, discount_rate,
                                               ui.exit_multiple)]

\* l.100: total_value
dcf_discounted(ui, info, latest_fcf, discount_rate, projected, terminal) ==
  dcf_shown(ui, info, latest_fcf, discount_rate, projected, terminal,
            discounted_cash_flows(projected, terminal, discount_rate))

\* l.94-98: terminal
dcf_projected(ui, info, latest_fcf, discount_rate, projected) ==
  dcf_discounted(ui, info, latest_fcf, discount_rate, projected,
                 IF ui.method = "Gordon Growth"
                   THEN calculate_terminal_value_gordon(projected[Len(projected)],
                                                        Pct(ui.terminal_pct), discount_rate)
                   ELSE calculate_terminal_value_exit_multiple(projected[Len(projected)],
                                                               PyInt(ui.exit_multiple)))

\* l.40-83: st.stop() without a cash flow, else discount_rate and projected
dcf_extracted(ui, info, latest_fcf) ==
  IF ~latest_fcf.has THEN dcf_ended(ui.ticker, "stopped")
  ELSE dcf_projected(ui, info, latest_fcf.v,
                     IF ui.use_auto_wacc THEN capm(info) ELSE Pct(ui.wacc_pct),
                     project_cash_flows(latest_fcf.v, Pct(ui.growth_pct), DefaultYears))

\* l.32-38: financials and latest_fcf
dcf_fetched(ui, financials) ==
  IF financials.raises THEN dcf_ended(ui.ticker, "raised")
  ELSE dcf_extracted(ui, financials.info, extract_latest_fcf(financials.cashflow))

dcf_section(ticker, growth_pct, terminal_pct, use_auto_wacc, wacc_pct, method, exit_multiple) ==
  dcf_fetched([ticker |-> ticker, growth_pct |-> growth_pct, terminal_pct |-> terminal_pct,
               use_auto_wacc |-> use_auto_wacc, wacc_pct |-> wacc_pct, method |-> method,
               exit_multiple |-> exit_multiple],
              get_financials(ticker))

RunDCF ==
  \E ticker \in SingleTickers, growth_pct \in GrowthSlider, terminal_pct \in TerminalSlider,
     wacc \in WaccChoices,
     method \in {"Gordon Growth", "Exit Multiple"}, exit_multiple \in ExitSlider :
    /\ pc = "idle"
    /\ pc' = "done"
    /\ dcf' = dcf_section(ticker, growth_pct, terminal_pct, wacc[1], wacc[2],
                          method, exit_multiple)
    /\ UNCHANGED <<lib, ddm, tables>>

(***************************************************************************)
(* app.py, the DDM flow (lines 233-307).  One action is one run.           *)
(***************************************************************************)
DdmTickers == {"AAA", "CCC", "EEE", "ZZZ"}

DdmGrowthSlider == {0, 5, 9}

DdmRateSlider == {5, 9}

MaxDivYears == 2

HighGrowthSlider == {0, 8}

DdmTerminalSlider == {0, 5, 10}

DdmBlank ==
  [status |-> "none", ticker |-> "", ddm_mode |-> "", dividend |-> None,
   current_price |-> None, growth |-> 0, discount |-> 0, div_years |-> 0,
   initial_growth |-> 0, value |-> None, error |-> FALSE, comparison |-> ""]

\* the test of r > g left out
single_stage_guard_off(r, g) == TRUE

\* l.270: r > g
single_stage_guard(r, g) == FGt(r, g)

ddm_base(ticker, ddm_mode, growth, discount) ==
  [DdmBlank EXCEPT !.ticker = ticker, !.ddm_mode = ddm_mode, !.growth = growth,
     !.discount = discount]

\* the page with the dividend and the price, no value
ddm_shown(base, info) ==
  [base EXCEPT !.status = "shown", !.dividend = info.dividendRate,
     !.current_price = info.currentPrice]

\* l.271-277 and 293-299: the value and, with a current price, the comparison
ddm_valued(shown, value) ==
  [shown EXCEPT
     !.value = Some(value),
     !.comparison = IF Truthy(shown.current_price)
                      THEN valuation_label(value, shown.current_price.v) ELSE ""]

\* l.270-279
ddm_single_fetched(base, g, r, financials) ==
  IF financials.raises THEN [base EXCEPT !.status = "raised"]
  ELSE IF Truthy(financials.info.dividendRate) /\ single_stage_guard(r, g)
    THEN ddm_valued(ddm_shown(base, financials.info),
                    FDiv(FMul(financials.info.dividendRate.v, FAdd(PyInt(1), g)),
                         FSub(r, g)))
  ELSE IF ~single_stage_guard(r, g)
    THEN [ddm_shown(base, financials.info) EXCEPT !.error = TRUE]
  ELSE ddm_shown(base, financials.info)

\* the Single-Stage branch, lines 267-279
ddm_single(ticker, g_pct, r_pct) ==
  ddm_single_fetched(ddm_base(ticker, "Single-Stage", g_pct, r_pct), Pct(g_pct), Pct(r_pct),
                     get_financials(ticker))

\* l.289-293: intrinsic_value = present_value + present_terminal
ddm_intrinsic_value(dividends, terminal_growth, discount_rate, div_years) ==
  FAdd(\* present_value
       PySum([i \in 1..div_years |->
                FDiv(dividends[i], FPow(FAdd(PyInt(1), discount_rate), i))],
             div_years),
       \* present_terminal: terminal_value, taken on terminal_dividend, discounted
       FDiv(FDiv(FMul(dividends[Len(dividends)], FAdd(PyInt(1), terminal_growth)),
                 FSub(discount_rate, terminal_growth)),
            FPow(FAdd(PyInt(1), discount_rate), div_years)))

ddm_multi_valued(base, info, intrinsic_value) ==
  IF intrinsic_value.k = "raise"
    THEN [base EXCEPT !.status = "raised", !.dividend = info.dividendRate,
            !.current_price = info.currentPrice]
  ELSE ddm_valued(ddm_shown(base, info), intrinsic_value)

\* l.286-288: dividends
ddm_multi_fetched(base, div_years, initial_growth, terminal_growth, discount_rate, financials) ==
  IF financials.raises THEN [base EXCEPT !.status = "raised"]
  ELSE IF ~Truthy(financials.info.dividendRate) THEN ddm_shown(base, financials.info)
  ELSE ddm_multi_valued(
         base, financials.info,
         ddm_intrinsic_value(
           [i \in 1..div_years |->
              FMul(financials.info.dividendRate.v, FPow(FAdd(PyInt(1), initial_growth), i))],
           terminal_growth, discount_rate, div_years))

\* the Multi-Stage branch, lines 281-299
ddm_multi(ticker, div_years, initial_pct, terminal_pct, r_pct) ==
  ddm_multi_fetched([ddm_base(ticker, "Multi-Stage", terminal_pct, r_pct)
                       EXCEPT !.div_years = div_years, !.initial_growth = initial_pct],
                    div_years, Pct(initial_pct), Pct(terminal_pct), Pct(r_pct),
                    get_financials(ticker))

RunDDMSingle ==
  \E ticker \in DdmTickers, g_pct \in DdmGrowthSlider, r_pct \in DdmRateSlider :
    /\ pc = "idle"
    /\ pc' = "done"
    /\ ddm' = ddm_single(ticker, g_pct, r_pct)
    /\ UNCHANGED <<lib, dcf, tables>>

RunDDMMulti ==
  \E ticker \in DdmTickers, div_years \in 1..MaxDivYears, initial_pct \in HighGrowthSlider,
     terminal_pct \in DdmTerminalSlider, r_pct \in DdmRateSlider :
    /\ pc = "idle"
    /\ pc' = "done"
    /\ ddm' = ddm_multi(ticker, div_years, initial_pct, terminal_pct, r_pct)
    /\ UNCHANGED <<lib, dcf, tables>>

(***************************************************************************)
(* app.py, the multi-ticker DCF comparison (lines 172-230).  tickers is    *)
(* the text input split at the commas, each token stripped and upper-      *)
(* cased; the loop appends one row per step.                               *)
(***************************************************************************)
MaxEntered == 6

MaxListed == 5

Injective(q) ==
  \A i, j \in 1..Len(q) : q[i] = q[j] => i = j

\* the lists a user enters: distinct symbols, at most MaxEntered of them
EnteredLists ==
  UNION {{q \in [1..n -> Tickers] : Injective(q)} : n \in 1..MaxEntered}

\* the list without the slice
WholeList(list) == list

\* list[:5]
FirstFive(list) == SubSeq(list, 1, IF Len(list) < MaxListed THEN Len(list) ELSE MaxListed)

\* n/d to the nearest integer, a tie to the even one
RoundHalfEven(n, d) ==
  IF 2 * (n % d) > d \/ (2 * (n % d) = d /\ (n \div d) % 2 = 1) THEN n \div d + 1
  ELSE n \div d

\* round(x, 2) of a float whose terms are below Base^2: to the nearest hundredth
PyRound2(x) ==
  IF x.k # "fin" \/ Len(QNum(x.q)) > 2 \/ Len(QDen(x.q)) > 2 THEN x
  ELSE Fin(Q(x.q.s * RoundHalfEven(100 * BToNat(QNum(x.q)), BToNat(QDen(x.q))), 100), x.np)

CompareFailed(t) ==
  [Ticker |-> t, failed |-> TRUE, MarketPrice |-> None, IntrinsicGordon |-> None,
   IntrinsicExit |-> None, ValuationGordon |-> "N/A", ValuationExit |-> "N/A"]

\* l.195-209: the two intrinsic values per share
compare_valued(f, fcf, proj) ==
  [raised |-> f.raises \/ ~fcf.has,
   market |-> f.info.currentPrice,
   intrinsic_gordon |->
     IF Truthy(f.info.sharesOutstanding)
       THEN Some(FDiv(discounted_cash_flows(
                        proj,
                        calculate_terminal_value_gordon(proj[Len(proj)], Pct(2), Pct(10)),
                        Pct(10)),
                      f.info.sharesOutstanding.v))
     ELSE None,
   intrinsic_exit |->
     IF Truthy(f.info.sharesOutstanding)
       THEN Some(FDiv(discounted_cash_flows(
                        proj,
                        calculate_terminal_value_exit_multiple(proj[Len(proj)], PyInt(12)),
                        Pct(10)),
                      f.info.sharesOutstanding.v))
     ELSE None]

\* l.188-192: proj, at the growth of 10%
compare_extracted(f, fcf) ==
  compare_valued(f, fcf, project_cash_flows(fcf.v, Pct(10), DefaultYears))

compare_fetched(f) == compare_extracted(f, extract_latest_fcf(f.cashflow))

\* the locals of the loop body for ticker t (lines 183-209)
compare_values(t) == compare_fetched(get_financials(t))

\* compare_values over the provider's symbols, as a table
compare_locals == Table([t \in Tickers |-> compare_values(t)])

\* the row appended in the try (lines 211-218), v the locals
compare_shown(t, v) ==
  IF v.raised THEN CompareFailed(t)
  ELSE
    [Ticker |-> t, failed |-> FALSE,
     MarketPrice |-> IF Truthy(v.market) THEN Some(PyRound2(v.market.v)) ELSE None,
     IntrinsicGordon |->
       IF Truthy(v.intrinsic_gordon) THEN Some(PyRound2(v.intrinsic_gordon.v)) ELSE None,
     IntrinsicExit |->
       IF Truthy(v.intrinsic_exit) THEN Some(PyRound2(v.intrinsic_exit.v)) ELSE None,
     ValuationGordon |->
       IF Truthy(v.intrinsic_gordon) /\ Truthy(v.market)
          /\ FGt(v.intrinsic_gordon.v, v.market.v)
         THEN "Undervalued" ELSE "Overvalued",
     ValuationExit |->
       IF Truthy(v.intrinsic_exit) /\ Truthy(v.market)
          /\ FGt(v.intrinsic_exit.v, v.market.v)
         THEN "Undervalued" ELSE "Overvalued"]

\* the row the loop body appends for ticker t, in the try or in the except
\* (lines 211-228)
compare_row(t) == compare_shown(t, compare_locals[t])

\* compare_row over the provider's symbols, as a table
compare_rows == Table([t \in Tickers |-> compare_row(t)])

StartCompare ==
  \E list \in EnteredLists :
    /\ pc = "idle"
    /\ pc' = "compare"
    /\ tickers' = list
    /\ ticker_list' = FirstFive(list)
    /\ comparison' = <<>>
    /\ UNCHANGED <<lib, dcf, ddm, metrics_table, selected_metrics, scoring>>

CompareStep ==
  /\ pc = "compare"
  /\ Len(comparison) < Len(ticker_list)
  /\ comparison' = Append(comparison, compare_rows[ticker_list[Len(comparison) + 1]])
  /\ UNCHANGED <<pc, lib, dcf, ddm, tickers, ticker_list, metrics_table, selected_metrics,
                 scoring>>

\* st.dataframe(comparison)
CompareShow ==
  /\ pc = "compare"
  /\ Len(comparison) = Len(ticker_list)
  /\ pc' = "done"
  /\ UNCHANGED <<lib, dcf, ddm, tables>>

(***************************************************************************)
(* Binary64 numbers, for the peer scoring, where the question is whether   *)
(* a result is exactly zero: rounding decides that, so here every          *)
(* operation rounds as the hardware does (to nearest, ties to even).  A    *)
(* finite value is s * m * 2^x with s the sign, m = 0 or 2^52 <= m < 2^53. *)
(* Exponents are not bounded: the values met are far from the overflow     *)
(* and underflow thresholds.                                               *)
(***************************************************************************)
RECURSIVE BShl(_, _)
BShl(a, k) == IF k >= 10 THEN BShl(BMulSmall(a, 1024), k - 10) ELSE BMulSmall(a, 2 ^ k)

\* a \div k and a % k for a machine integer 0 < k <= 1024
RECURSIVE BDivSmallFrom(_, _, _, _)
BDivSmallFrom(a, k, i, r) ==
  IF i = 0 THEN <<>>
  ELSE LET t == r * Base + a[i]
       IN  BDivSmallFrom(a, k, i - 1, t % k) \o <<t \div k>>

BDivSmall(a, k) == BNorm(BDivSmallFrom(a, k, Len(a), 0))

RECURSIVE BShr(_, _)
BShr(a, k) == IF k >= 10 THEN BShr(BDivSmall(a, 1024), k - 10) ELSE BDivSmall(a, 2 ^ k)

P52 == BShl(<<1>>, 52)

P53 == BShl(<<1>>, 53)

DZero == [k |-> "fin", s |-> 0, m |-> <<>>, x |-> 0]

DNaN == [k |-> "nan", s |-> 0, m |-> <<>>, x |-> 0]

DInf(s) == [k |-> "inf", s |-> s, m |-> <<>>, x |-> 0]

\* n * 2^x with 0 < n < 2^53, brought to 2^52 <= n
RECURSIVE DUp(_, _, _)
DUp(s, n, x) ==
  IF BCmp(n, P52) >= 0 THEN [k |-> "fin", s |-> s, m |-> n, x |-> x]
  ELSE IF BCmp(BMulSmall(n, 1024), P53) < 0 THEN DUp(s, BMulSmall(n, 1024), x - 10)
  ELSE DUp(s, BMulSmall(n, 2), x - 1)

\* the least j >= k with n < t * 2^(j - k), for t = 2^53 * 2^k
RECURSIVE DBits(_, _, _)
DBits(n, t, k) ==
  IF BCmp(n, t) < 0 THEN k
  ELSE IF BCmp(n, BMulSmall(t, 1024)) >= 0 THEN DBits(n, BMulSmall(t, 1024), k + 10)
  ELSE DBits(n, BMulSmall(t, 2), k + 1)

\* the remainder n - q * 2^k against the half 2^(k-1): -1, 0, 1
DHalf(n, q, k) == BCmp(BMulSmall(BSub(n, BShl(q, k)), 2), BShl(<<1>>, k))

\* q = n \div 2^k moved up when the remainder is over the half, or the half and q odd
DNearest(n, q, k) ==
  IF DHalf(n, q, k) > 0 \/ (DHalf(n, q, k) = 0 /\ q[1] % 2 = 1) THEN BAdd(q, <<1>>) ELSE q

DPack(s, m, x) ==
  IF m = P53 THEN [k |-> "fin", s |-> s, m |-> P52, x |-> x + 1]
  ELSE [k |-> "fin", s |-> s, m |-> m, x |-> x]

\* the binary64 nearest to s * n * 2^x, n a natural of any size: cut to 53 bits
DCut(s, n, x, k) == DPack(s, DNearest(n, BShr(n, k), k), x + k)

DRound(s, n, x) ==
  IF n = <<>> \/ s = 0 THEN DZero
  ELSE IF BCmp(n, P53) < 0 THEN DUp(s, n, x)
  ELSE DCut(s, n, x, DBits(n, P53, 0))

\* t doubled until r < t, r doubled until t <= 2r: <<r, t, exponent>>
RECURSIVE DAlign(_, _, _)
DAlign(r, t, x) ==
  IF BCmp(r, t) >= 0
    THEN (IF BCmp(r, BMulSmall(t, 1024)) >= 0 THEN DAlign(r, BMulSmall(t, 1024), x + 10)
          ELSE DAlign(r, BMulSmall(t, 2), x + 1))
  ELSE IF BCmp(BMulSmall(r, 2), t) < 0
    THEN (IF BCmp(BMulSmall(r, 1024), t) < 0 THEN DAlign(BMulSmall(r, 1024), t, x - 10)
          ELSE DAlign(BMulSmall(r, 2), t, x - 1))
  ELSE <<r, t, x>>

\* the largest digit d in lo..hi with t * d <= r
RECURSIVE DDigit(_, _, _, _)
DDigit(r, t, lo, hi) ==
  IF lo = hi THEN lo
  ELSE LET mid == (lo + hi + 1) \div 2
       IN  IF BCmp(BMulSmall(t, mid), r) <= 0 THEN DDigit(r, t, mid, hi)
           ELSE DDigit(r, t, lo, mid - 1)

\* long division of r by t, r < t, giving i digits of 14 bits: <<quotient, remainder>>
RECURSIVE DQuot(_, _, _)
DQuot(r, t, i) ==
  IF i = 0 THEN <<<<>>, r>>
  ELSE LET prev == DQuot(r, t, i - 1)
           rr == BMulSmall(prev[2], 16384)
           digit == DDigit(rr, t, 0, 16383)
       IN  <<BAdd(BMulSmall(prev[1], 16384), BFromNat(digit)),
             BSub(rr, BMulSmall(t, digit))>>

\* the binary64 nearest to s * v[1] * 2^x, v[2] the remainder v[1] leaves out: it
\* is kept as a sticky bit under v[1]
DSticky(s, v, x) == DRound(s, BMulSmallFrom(v[1], 2, 1, IF v[2] = <<>> THEN 0 ELSE 1), x - 1)

DRatioAligned(s, a) == DSticky(s, DQuot(a[1], a[2], 4), a[3] - 56)

\* the binary64 nearest to s * (n / d) * 2^x: 56 quotient bits and a sticky bit
DRatio(s, n, d, x) ==
  IF n = <<>> \/ s = 0 THEN DZero ELSE DRatioAligned(s, DAlign(n, d, x))

\* the float of the decimal n/d
DLit(n, d) == DRatio(Sgn(n), BFromNat(Abs(n)), BFromNat(d), 0)

DNeg(a) == [a EXCEPT !.s = -a.s]

\* a + b for finite non-zero a and b, na and nb their digits at the lesser exponent
DSum(a, b, na, nb) ==
  DRound(IF a.s = b.s \/ BCmp(na, nb) > 0 THEN a.s ELSE b.s,
         IF a.s = b.s THEN BAdd(na, nb)
         ELSE IF BCmp(na, nb) >= 0 THEN BSub(na, nb) ELSE BSub(nb, na),
         Min(a.x, b.x))

DAdd(a, b) ==
  IF a.k = "nan" \/ b.k = "nan" THEN DNaN
  ELSE IF a.k = "inf" /\ b.k = "inf" THEN (IF a.s = b.s THEN a ELSE DNaN)
  ELSE IF a.k = "inf" THEN a
  ELSE IF b.k = "inf" THEN b
  ELSE IF a.s = 0 THEN b
  ELSE IF b.s = 0 THEN a
  ELSE DSum(a, b, BShl(a.m, a.x - Min(a.x, b.x)), BShl(b.m, b.x - Min(a.x, b.x)))

DSub(a, b) == DAdd(a, DNeg(b))

DMul(a, b) ==
  IF a.k = "nan" \/ b.k = "nan" THEN DNaN
  ELSE IF a.k = "inf" \/ b.k = "inf"
         THEN (IF a.s * b.s = 0 THEN DNaN ELSE DInf(a.s * b.s))
  ELSE DRound(a.s * b.s, BMul(a.m, b.m), a.x + b.x)

\* numpy division: x/0 is inf, 0/0 is nan
DDiv(a, b) ==
  IF a.k = "nan" \/ b.k = "nan" THEN DNaN
  ELSE IF b.k = "inf" THEN (IF a.k = "inf" THEN DNaN ELSE DZero)
  ELSE IF b.s = 0 THEN (IF a.s = 0 THEN DNaN ELSE DInf(a.s))
  ELSE IF a.k = "inf" THEN DInf(a.s * b.s)
  ELSE DRatio(a.s * b.s, a.m, b.m, a.x - b.x)

\* bit-by-bit integer square root: <<root, remainder>>
RECURSIVE DRoot(_, _, _)
DRoot(n, res, bit) ==
  IF bit = <<>> THEN <<res, n>>
  ELSE LET t == BAdd(res, bit)
       IN  IF BCmp(n, t) >= 0
             THEN DRoot(BSub(n, t), BAdd(BDivSmall(res, 2), bit), BDivSmall(bit, 4))
           ELSE DRoot(n, BDivSmall(res, 2), BDivSmall(bit, 4))

\* the root is taken on a.m * 2^j, j making the exponent even
DSqrtAt(a, j) ==
  DSticky(1, DRoot(BShl(a.m, j), <<>>, BShl(<<1>>, 110)), (a.x - j) \div 2)

DSqrt(a) ==
  IF a.k = "nan" \/ a.s < 0 THEN DNaN
  ELSE IF a.k = "inf" \/ a.s = 0 THEN a
  ELSE DSqrtAt(a, IF (a.x - 58) % 2 = 0 THEN 58 ELSE 59)

\* a < b (False whenever a nan is involved)
DLt(a, b) ==
  /\ a.k # "nan" /\ b.k # "nan"
  /\ ~(a.k = "inf" /\ b.k = "inf" /\ a.s = b.s)
  /\ DSub(a, b).s < 0

(***************************************************************************)
(* app.py, the Comps flow (lines 311-408): the loop that builds            *)
(* metrics_table, the DataFrame made of it and the scoring of the peers.   *)
(***************************************************************************)
MissingMultiples == [i \in 1..Len(MetricKeys) |-> [has |-> FALSE, x |-> 0]]

\* one pass of the loop body: the row of a ticker, or the row of the except branch
metrics_row(t) ==
  LET fin == get_financials(t)
  IN  IF fin.raises THEN [Ticker |-> t, Error |-> TRUE, multiples |-> MissingMultiples]
      ELSE [Ticker |-> t, Error |-> FALSE, multiples |-> get_valuation_multiples(fin.info)]

\* pd.to_numeric(errors="coerce") of a cell: "N/A" and an absent cell are NaN
to_numeric(cell) == IF cell.has THEN DLit(cell.x, 100) ELSE DNaN

\* the columns of df that are not Ticker, Sector or Error
numeric_cols(table) ==
  IF \E i \in 1..Len(table) : ~table[i].Error THEN 1..Len(MetricKeys) ELSE {}

\* the elements of a set of integers in ascending order
RECURSIVE Ascending(_)
Ascending(S) ==
  IF S = {} THEN <<>>
  ELSE LET lo == CHOOSE i \in S : \A j \in S : i <= j
       IN  <<lo>> \o Ascending(S \ {lo})

\* the index of clean_df[selected].dropna(): the rows with every selected cell present
valid_rows(table, selected) ==
  IF selected = {} THEN <<>>
  ELSE Ascending({i \in 1..Len(table) : \A c \in selected : table[i].multiples[c].has})

\* the sum of a column, taken in row order from 0.0
RECURSIVE ColSum(_, _)
ColSum(vals, n) == IF n = 0 THEN DZero ELSE DAdd(ColSum(vals, n - 1), vals[n])

ColMean(vals) == DDiv(ColSum(vals, Len(vals)), DLit(Len(vals), 1))

\* the squares of the deviations from avg
SquaredDevs(vals, avg) ==
  Table([i \in 1..Len(vals) |-> DMul(DSub(avg, vals[i]), DSub(avg, vals[i]))])

\* the sample standard deviation (ddof = 1): NaN for a single row
ColStd(vals) ==
  IF Len(vals) <= 1 THEN DNaN
  ELSE DSqrt(DDiv(ColSum(SquaredDevs(vals, ColMean(vals)), Len(vals)),
                  DLit(Len(vals) - 1, 1)))

fillna(v) == IF v.k = "nan" THEN DZero ELSE v

ScoringBlank ==
  [ran |-> FALSE, valid |-> <<>>, mean |-> <<>>, std |-> <<>>, z_scores |-> <<>>,
   score |-> <<>>, best_idx |-> 0, best_ticker |-> ""]

\* l.375: idxmin, the first row with the least score
idxmin(score) ==
  CHOOSE p \in 1..Len(score) :
    /\ \A q \in 1..Len(score) : ~DLt(score[q], score[p])
    /\ \A q \in 1..(p - 1) : DLt(score[p], score[q])

\* l.375-376: best_idx and best_ticker
score_shown(table, valid, mean, std, z, score, best) ==
  [ran |-> TRUE, valid |-> valid, mean |-> mean, std |-> std, z_scores |-> z,
   score |-> score, best_idx |-> valid[best], best_ticker |-> table[valid[best]].Ticker]

score_ranked(table, valid, mean, std, z, score) ==
  score_shown(table, valid, mean, std, z, score, idxmin(score))

\* l.374: the sum of each row of z_scores, in column order
score_summed(table, valid, cols, mean, std, z) ==
  score_ranked(table, valid, mean, std, z,
               Table([p \in 1..Len(valid) |->
                        ColSum([k \in 1..Len(cols) |-> z[p][cols[k]]], Len(cols))]))

\* l.372-373: (valid_rows - mean) / std, then fillna(0)
score_standardised(table, valid, selected, col, mean, std) ==
  score_summed(table, valid, Ascending(selected), mean, std,
               Table([p \in 1..Len(valid) |->
                        Table([c \in selected |->
                                 fillna(DDiv(DSub(col[c][p], mean[c]), std[c]))])]))

\* l.372: the mean and the std of each column of valid_rows
score_described(table, valid, selected, col) ==
  score_standardised(table, valid, selected, col,
                     Table([c \in selected |-> ColMean(col[c])]),
                     Table([c \in selected |-> ColStd(col[c])]))

\* l.368-371: valid_rows, as numbers
score_cleaned(table, valid, selected) ==
  IF Len(valid) = 0 THEN ScoringBlank
  ELSE score_described(table, valid, selected,
                       Table([c \in selected |->
                                Table([p \in 1..Len(valid) |->
                                         to_numeric(table[valid[p]].multiples[c])])]))

\* lines 368-376
score_peers(table, selected) == score_cleaned(table, valid_rows(table, selected), selected)

\* the symbols in the order of a ring, to make lists of up to MaxEntered entries
Ring == <<"AAA", "BBB", "CCC", "DDD", "EEE", "ZZZ">>

MaxPairs == 2

\* the lists entered in this flow: the runs around the ring, and every short list
CompsLists ==
  {[i \in 1..n |-> Ring[((s + i - 2) % Len(Ring)) + 1]] : s \in 1..Len(Ring), n \in 1..MaxEntered}
    \cup {q \in EnteredLists : Len(q) <= MaxPairs}

MaxSelected == 2

\* the columns the user picks from in st.multiselect
PickedColumns == {1, 2, 4}

Selections(cols) == {S \in SUBSET (cols \cap PickedColumns) : Cardinality(S) <= MaxSelected}

StartComps ==
  \E list \in CompsLists :
    /\ pc = "idle"
    /\ pc' = "comps"
    /\ tickers' = list
    /\ ticker_list' = FirstFive(list)
    /\ metrics_table' = <<>>
    /\ UNCHANGED <<lib, dcf, ddm, comparison, selected_metrics, scoring>>

CompsStep ==
  /\ pc = "comps"
  /\ Len(metrics_table) < Len(ticker_list)
  /\ metrics_table' = Append(metrics_table, metrics_row(ticker_list[Len(metrics_table) + 1]))
  /\ UNCHANGED <<pc, lib, dcf, ddm, tickers, ticker_list, comparison, selected_metrics,
                 scoring>>

\* the table is shown, the user selects metrics, the peers are scored
CompsScore ==
  \E selected \in Selections(numeric_cols(metrics_table)) :
    /\ pc = "comps"
    /\ Len(metrics_table) = Len(ticker_list)
    /\ pc' = "done"
    /\ selected_metrics' = selected
    /\ scoring' = score_peers(metrics_table, selected)
    /\ UNCHANGED <<lib, dcf, ddm, tickers, ticker_list, comparison, metrics_table>>

TablesBlank ==
  /\ tickers = <<>> /\ ticker_list = <<>> /\ comparison = <<>>
  /\ metrics_table = <<>> /\ selected_metrics = {} /\ scoring = ScoringBlank

LibIdle == LibStart(CHOOSE a \in LibArgs : TRUE)

InitLib ==
  /\ pc = "lib" /\ lib \in {LibStart(a) : a \in LibArgs}
  /\ dcf = DcfBlank /\ ddm = DdmBlank /\ TablesBlank

NextLib == CallProject \/ CallTerminal \/ CallDiscounted

SpecLib == InitLib /\ [][NextLib]_vars

InitData ==
  /\ pc = "data" /\ lib \in {DataStart(f) : f \in Frames}
  /\ dcf = DcfBlank /\ ddm = DdmBlank /\ TablesBlank

NextData == CallExtract

SpecData == InitData /\ [][NextData]_vars

Init == pc = "idle" /\ lib = LibIdle /\ dcf = DcfBlank /\ ddm = DdmBlank /\ TablesBlank

Next ==
  \/ RunDCF
  \/ RunDDMSingle
  \/ RunDDMMulti
  \/ StartCompare
  \/ CompareStep
  \/ CompareShow
  \/ StartComps
  \/ CompsStep
  \/ CompsScore

Spec == Init /\ [][Next]_vars

(***************************************************************************)
(* Properties of the flows.                                                *)
(***************************************************************************)
\* C1: with a discount rate r <= the terminal growth g, the Gordon Growth terminal
\* value is no number (negative, infinite or otherwise) and the DCF flow reports
\* no numeric intrinsic value built on it
C1_GordonGuard ==
  (dcf.status = "shown" /\ dcf.method = "Gordon Growth"
     /\ ~FGt(dcf.discount_rate, dcf.terminal_growth))
    => ~IsNumber(dcf.terminal) /\ ~IsNumber(dcf.total_value)

\* C2: with a discount rate r <= the terminal growth g2, the multi-stage dividend
\* discount computation shows no intrinsic value and no Undervalued/Overvalued label
C2_MultiStageGuard ==
  (ddm.ddm_mode = "Multi-Stage" /\ ddm.discount <= ddm.growth)
    => ~ddm.value.has /\ ddm.comparison = ""

\* C3: the single-stage dividend discount computation shows a value only when
\* r > g, and then D0 * (1 + g) / (r - g); whenever r <= g it shows the error, no
\* value and no label, with or without a dividend
C3_SingleStageGuard ==
  (ddm.ddm_mode = "Single-Stage" /\ ddm.status = "shown") =>
    /\ ddm.value.has =>
         /\ ddm.discount > ddm.growth
         /\ FEq(ddm.value.v,
                FMul(ddm.dividend.v,
                     Fin(Q(100 + ddm.growth, ddm.discount - ddm.growth), FALSE)))
    /\ ddm.discount <= ddm.growth =>
         ddm.error /\ ~ddm.value.has /\ ddm.comparison = ""
    /\ ddm.comparison # "" => ddm.value.has

C3_Witness ==
  /\ ddm.ddm_mode = "Single-Stage" /\ ddm.status = "shown"
  /\ Truthy(ddm.dividend) /\ ddm.discount <= ddm.growth /\ ddm.error

\* C4: discounted_cash_flows returns no number when the discount rate is <= -1
\* or the series of cash flows is empty; in particular it does not return the
\* terminal value undiscounted
C4_DiscountGuard ==
  (lib.pc = "done" /\ (lib.args.discount_rate <= -100 \/ Len(lib.projected) = 0))
    => ~IsNumber(lib.pv)

\* C5: the Gordon sensitivity grid has all its rows and columns; a cell whose
\* sampled growth is >= its sampled rate, or whose sampled rate is <= -1, holds
\* the missing marker (NaN), and every other cell holds a finite value
C5_InvalidCells ==
  (dcf.status = "shown" /\ dcf.method = "Gordon Growth") =>
    LET rates == HeatRates(dcf.discount_rate)
        growths == HeatGrowths(dcf.terminal_growth)
    IN  /\ Len(dcf.Z) = Len(growths)
        /\ \A gi \in 1..Len(growths) :
             /\ Len(dcf.Z[gi]) = Len(rates)
             /\ \A ri \in 1..Len(rates) :
                  IF ~FGt(rates[ri], growths[gi]) \/ ~FGt(rates[ri], PyInt(-1))
                    THEN dcf.Z[gi][ri].k = "nan"
                    ELSE dcf.Z[gi][ri].k = "fin"

\* the cells of column c that are present, in row order
PresentColumn(c) ==
  LET rows == Ascending({i \in 1..Len(metrics_table) : metrics_table[i].multiples[c].has})
  IN  Table([p \in 1..Len(rows) |-> to_numeric(metrics_table[rows[p]].multiples[c])])

\* C6: in peer scoring the mean and the sample standard deviation of a selected
\* metric are taken over all peers that have that metric, and every peer with
\* at least one selected metric present gets an aggregate score
C6_PeersScored ==
  (pc = "done" /\ metrics_table # <<>>) =>
    /\ \A i \in 1..Len(metrics_table) :
         (\E c \in selected_metrics : metrics_table[i].multiples[c].has) =>
           scoring.ran /\ \E p \in 1..Len(scoring.valid) : scoring.valid[p] = i
    /\ scoring.ran =>
         \A c \in selected_metrics :
           /\ scoring.mean[c] = ColMean(PresentColumn(c))
           /\ scoring.std[c] = ColStd(PresentColumn(c))

\* C7: in peer scoring a selected metric whose present values are all equal (or
\* that one peer only has) contributes exactly 0 to every aggregate, no aggregate
\* is NaN or infinite, and the peer reported best has the minimum aggregate
C7_ZeroVariance ==
  scoring.ran =>
    LET n == Len(scoring.valid)
        have(c) == {i \in 1..Len(metrics_table) : metrics_table[i].multiples[c].has}
        flat(c) == \A i, j \in have(c) :
                     metrics_table[i].multiples[c].x = metrics_table[j].multiples[c].x
        best == CHOOSE p \in 1..n : scoring.valid[p] = scoring.best_idx
    IN  /\ \A c \in selected_metrics :
             flat(c) => \A p \in 1..n : scoring.z_scores[p][c] = DZero
        /\ \A p \in 1..n : scoring.score[p].k = "fin"
        /\ \A p \in 1..n : ~DLt(scoring.score[p], scoring.score[best])
        /\ scoring.best_ticker = metrics_table[scoring.best_idx].Ticker

\* C8: in Gordon mode with r - 0.03 > g + 0.01, exactly one cell of the
\* sensitivity grid, the centre cell at (r, g), equals the intrinsic value the
\* flow computes from the same inputs
C8_CentreCell ==
  (dcf.status = "shown" /\ dcf.method = "Gordon Growth"
     /\ FGt(FSub(dcf.discount_rate, Pct(3)), FAdd(dcf.terminal_growth, Pct(1)))) =>
    /\ FEq(dcf.Z[3][4], dcf.total_value)
    /\ Cardinality({c \in (1..5) \X (1..7) : FEq(dcf.Z[c[1]][c[2]], dcf.total_value)}) = 1

StrictLabel(intrinsic, market) ==
  IF FGt(intrinsic, market) THEN "Undervalued"
  ELSE IF FGt(market, intrinsic) \/ FEq(market, intrinsic) THEN "Overvalued"
  ELSE "neither"

\* the labels of a row of the comparison by the strict rule, where both the
\* intrinsic value and the price are present
StrictRows ==
  Table([t \in Tickers |->
           LET v == compare_locals[t]
           IN  [gordon |-> IF v.intrinsic_gordon.has /\ v.market.has
                             THEN StrictLabel(v.intrinsic_gordon.v, v.market.v) ELSE "",
                exit |-> IF v.intrinsic_exit.has /\ v.market.has
                           THEN StrictLabel(v.intrinsic_exit.v, v.market.v) ELSE ""]])

\* C9: wherever an intrinsic value is compared with a market price and both are
\* present, the label is Undervalued if intrinsic > price and Overvalued
\* otherwise, equality included
C9_StrictLabels ==
  /\ (dcf.status = "shown" /\ dcf.market_price.has /\ dcf.shares_outstanding.has) =>
       /\ dcf.implied_price.has
       /\ dcf.valuation_label = StrictLabel(dcf.implied_price.v, dcf.market_price.v)
  /\ (ddm.value.has /\ ddm.current_price.has) =>
       ddm.comparison = StrictLabel(ddm.value.v, ddm.current_price.v)
  /\ \A i \in 1..Len(comparison) :
       LET row == comparison[i]
           strict == StrictRows[row.Ticker]
       IN  ~row.failed =>
             /\ strict.gordon # "" => row.ValuationGordon = strict.gordon
             /\ strict.exit # "" => row.ValuationExit = strict.exit

\* a tie of intrinsic value and price, in each of the flows
C9_Witness ==
  \/ /\ dcf.status = "shown" /\ dcf.implied_price.has
     /\ FEq(dcf.implied_price.v, dcf.market_price.v) /\ dcf.valuation_label = "Overvalued"
  \/ /\ ddm.value.has /\ ddm.current_price.has
     /\ FEq(ddm.value.v, ddm.current_price.v) /\ ddm.comparison = "Overvalued"

\* what stops the loop body of the comparison for a symbol: the fetch raises, or no
\* operating cash flow is found
CompareFails(t) ==
  get_financials(t).raises
    \/ \A i \in 1..Len(possible_keys) : possible_keys[i] \notin DOMAIN get_financials(t).cashflow

\* C10: the comparison table and the multiples table hold one row per ticker among
\* the first five entered, in input order; the row of a failing ticker records the
\* failure of that ticker, the row of any other ticker is the row of that ticker
C10_RowPerTicker ==
  LET want == IF Len(tickers) < 5 THEN Len(tickers) ELSE 5
  IN  /\ Len(comparison) <= want /\ Len(metrics_table) <= want
      /\ (pc = "done" /\ comparison # <<>>) => Len(comparison) = want
      /\ (pc = "done" /\ metrics_table # <<>>) => Len(metrics_table) = want
      /\ \A i \in 1..Len(comparison) :
           /\ comparison[i].Ticker = tickers[i]
           /\ IF CompareFails(tickers[i])
                THEN comparison[i] =
                       [Ticker |-> tickers[i], failed |-> TRUE, MarketPrice |-> None,
                        IntrinsicGordon |-> None, IntrinsicExit |-> None,
                        ValuationGordon |-> "N/A", ValuationExit |-> "N/A"]
                ELSE ~comparison[i].failed /\ comparison[i] = compare_rows[tickers[i]]
      /\ \A i \in 1..Len(metrics_table) :
           /\ metrics_table[i].Ticker = tickers[i]
           /\ IF get_financials(tickers[i]).raises
                THEN metrics_table[i].Error
                       /\ \A c \in 1..Len(MetricKeys) : ~metrics_table[i].multiples[c].has
                ELSE /\ ~metrics_table[i].Error
                     /\ metrics_table[i].multiples = get_financials(tickers[i]).info.multiples

\* more than five entered, a failing ticker among the first five and a ticker that
\* does not fail after it
C10_Witness ==
  /\ pc = "done" /\ Len(tickers) > 5
  /\ \/ \E i, j \in 1..Len(comparison) :
          i < j /\ comparison[i].failed /\ ~comparison[j].failed
     \/ \E i, j \in 1..Len(metrics_table) :
          i < j /\ metrics_table[i].Error /\ ~metrics_table[j].Error

\* C11: in the comparison a ticker whose market price or shares outstanding is
\* unavailable has every figure and label that depends on the missing field
\* reported as missing (N/A): without shares, no intrinsic-per-share figure and no
\* Undervalued/Overvalued label; without a price, no market price and no label
C11_MissingPropagates ==
  \A i \in 1..Len(comparison) :
    ~comparison[i].failed =>
      /\ ~get_financials(comparison[i].Ticker).info.sharesOutstanding.has =>
           /\ ~comparison[i].IntrinsicGordon.has /\ ~comparison[i].IntrinsicExit.has
           /\ comparison[i].ValuationGordon = "N/A" /\ comparison[i].ValuationExit = "N/A"
      /\ ~get_financials(comparison[i].Ticker).info.currentPrice.has =>
           /\ ~comparison[i].MarketPrice.has
           /\ comparison[i].ValuationGordon = "N/A" /\ comparison[i].ValuationExit = "N/A"

\* C12: project_cash_flows(C0, g, n) returns a series of exactly n elements, 5
\* when n is left out and none when n = 0, whose element i is C0 * (1 + g)^i (the
\* first is C0 * (1 + g), each next one is the one before times 1 + g), for a
\* negative or zero C0 as for a positive one, and nothing is raised
C12_Projection ==
  lib.pc # "start" =>
    /\ Len(lib.projected) = IF lib.args.years.given THEN lib.args.years.n ELSE 5
    /\ \A i \in 1..Len(lib.projected) :
         /\ lib.projected[i].k = "fin"
         /\ FEq(lib.projected[i],
                FMul(IF i = 1 THEN lib.args.cash_flows ELSE lib.projected[i - 1],
                     Pct(100 + lib.args.growth_rate)))

\* a negative base value projected at a growth of 10% with the horizon left out
C12_Witness ==
  /\ lib.pc = "projected" /\ ~lib.args.years.given
  /\ lib.args.cash_flows.q.s < 0 /\ lib.args.growth_rate > 0
  /\ Len(lib.projected) = DefaultYears

====
